---------------------------- MODULE Spec2Model ----------------------------
(***************************************************************************)
(* HyperCalc (src/app.js): the expression engine (tokenize, toRPN,         *)
(* evaluateRPN, solve), the graph sampling loop (drawGraph) and the        *)
(* controller (handleInput).                                               *)
(*                                                                         *)
(* Strings are sequences of one-character strings.  JavaScript values are  *)
(* tagged triples:                                                         *)
(*   <<"num", n, d>>   the number n/d in lowest terms, d > 0; zero is      *)
(*                     <<"num", 0, 1>> (+0) or <<"num", 0, -1>> (-0)       *)
(*   <<"nan", 0, 0>>   NaN                                                 *)
(*   <<"inf", s, 0>>   s * Infinity, s in {1, -1}                          *)
(*   <<"irr", t, s>>   a finite number kept as the term t that computes    *)
(*                     it (an irrational such as Math.log(2)); s is its    *)
(*                     sign, 0 when the sign is not determined             *)
(*   <<"unk", 0, 0>>   a number outside the range computed here            *)
(*                     (magnitude beyond MaxMag, or a sign-dependent       *)
(*                     result of a term of undetermined sign)              *)
(*   <<"undef", 0, 0>> undefined                                           *)
(*   <<"str", k, 0>>   a string: k = "Error" is the marker solve returns,  *)
(*                     k = "objstr" a string holding "[object Object]"     *)
(*   <<"obj", 0, 0>>   a plain object ({})                                 *)
(*   <<"box", p, 0>>   the wrapper object Object(p) of the primitive p     *)
(* Numbers are the reals with the IEEE special values; binary rounding of  *)
(* float64 is not modelled.                                                *)
(***************************************************************************)
EXTENDS Integers, Sequences, FiniteSets, TLC

\* STATE.expression, STATE.result, STATE.history, STATE.angleMode and the
\* result field's text; pc is "idle" between events, "graph" inside the
\* loop of drawGraph, "call" and "done" around a direct call of solve;
\* w, h, px are drawGraph's locals, visited the columns it has sampled and
\* plotted the points <<px, py>> it has drawn.
VARIABLES expression, result, history, angleMode, displayResult,
          pc, w, h, px, visited, plotted

vars == <<expression, result, history, angleMode, displayResult,
          pc, w, h, px, visited, plotted>>

(***************************************************************************)
(* Bounds of the model.                                                    *)
(***************************************************************************)
MaxMag == 30000
MaxLen == 3
MaxArithLen == 7
MaxExprLen == 4
MaxHist == 2
MaxWidth == 4

(***************************************************************************)
(* Characters and strings.                                                 *)
(***************************************************************************)
Digits == <<"0", "1", "2", "3", "4", "5", "6", "7", "8", "9">>

DigitChars == {Digits[i] : i \in 1..10}

\* "#" stands for the digits of a number whose decimal expansion is not
\* produced here (see NumberToString); it lexes as part of a number.
NumChars == DigitChars \cup {".", "#"}

LowerChars == {"a", "b", "c", "d", "e", "f", "g", "h", "i", "j", "k", "l", "m",
               "n", "o", "p", "q", "r", "s", "t", "u", "v", "w", "x", "y", "z"}

SingleChars == {"(", ")", "+", "-", "*", "/", "^"}

DigitVal(c) == (CHOOSE i \in 1..10 : Digits[i] = c) - 1

RECURSIVE Concat(_)
Concat(ss) == IF ss = <<>> THEN <<>> ELSE Head(ss) \o Concat(Tail(ss))

ErrorStr == <<"E", "r", "r", "o", "r">>

(***************************************************************************)
(* JavaScript values.                                                      *)
(***************************************************************************)
NaN == <<"nan", 0, 0>>
Unk == <<"unk", 0, 0>>
Undefined == <<"undef", 0, 0>>
PZero == <<"num", 0, 1>>
NZero == <<"num", 0, -1>>
One == <<"num", 1, 1>>
Inf(s) == <<"inf", s, 0>>
ErrorMarker == <<"str", "Error", 0>>
ObjStr == <<"str", "objstr", 0>>
PlainObject == <<"obj", 0, 0>>

Abs(i) == IF i < 0 THEN -i ELSE i

RECURSIVE GCD(_, _)
GCD(a, b) == IF b = 0 THEN a ELSE GCD(b, a % b)

Zero(s) == IF s < 0 THEN NZero ELSE PZero

\* n/d (d # 0) in lowest terms; a zero quotient is +0.
Rat(n, d) ==
    IF n = 0 THEN PZero
    ELSE LET g == GCD(Abs(n), Abs(d))
             nn == (IF d < 0 THEN -n ELSE n) \div g
             dd == Abs(d) \div g
         IN IF Abs(nn) > MaxMag \/ dd > MaxMag THEN Unk ELSE <<"num", nn, dd>>

IsNum(v) == v[1] = "num"
IsZero(v) == v[1] = "num" /\ v[2] = 0
IsInt(v) == v[1] = "num" /\ Abs(v[3]) = 1
IsOddInt(v) == IsInt(v) /\ v[2] % 2 = 1

\* 1, -1, or 0 when the sign is not determined (or v is NaN).
SignOf(v) ==
    CASE v[1] = "num" -> IF v[2] > 0 THEN 1 ELSE IF v[2] < 0 THEN -1 ELSE v[3]
      [] v[1] = "inf" -> v[2]
      [] v[1] = "irr" -> v[3]
      [] OTHER -> 0

Irr(t, s) == <<"irr", t, s>>


(***************************************************************************)
(* Type conversion (ToPrimitive, ToNumber) as the operators of             *)
(* evaluateRPN apply it to their operands.                                 *)
(***************************************************************************)
IsNumber(v) == v[1] \in {"num", "nan", "inf", "irr", "unk"}

ToPrimitive(v) ==
    CASE v[1] = "box" -> v[2]
      [] v[1] = "obj" -> ObjStr
      [] OTHER -> v

ToNumber(v) ==
    LET p == ToPrimitive(v)
    IN IF IsNumber(p) THEN p ELSE NaN

(***************************************************************************)
(* Arithmetic on numbers (operands already converted by ToNumber).         *)
(***************************************************************************)
Neg(v) ==
    CASE v[1] = "num" -> IF v[2] = 0 THEN Zero(-v[3]) ELSE <<"num", -v[2], v[3]>>
      [] v[1] = "inf" -> Inf(-v[2])
      [] v[1] = "irr" -> IF v[2][1] = "neg" THEN v[2][2]
                         ELSE Irr(<<"neg", v>>, -v[3])
      [] OTHER -> v

NumAdd(a, b) ==
    IF a[1] = "nan" \/ b[1] = "nan" THEN NaN
    ELSE IF a[1] = "unk" \/ b[1] = "unk" THEN Unk
    ELSE IF a[1] = "inf" THEN (IF b[1] = "inf" /\ a[2] # b[2] THEN NaN ELSE a)
    ELSE IF b[1] = "inf" THEN b
    ELSE IF IsZero(a) /\ IsZero(b) THEN (IF a[3] < 0 /\ b[3] < 0 THEN NZero ELSE PZero)
    ELSE IF IsZero(a) THEN b
    ELSE IF IsZero(b) THEN a
    ELSE IF IsNum(a) /\ IsNum(b) THEN Rat(a[2] * b[3] + b[2] * a[3], a[3] * b[3])
    ELSE IF a = Neg(b) THEN PZero
    ELSE Irr(<<"+", a, b>>, IF SignOf(a) = SignOf(b) THEN SignOf(a) ELSE 0)

NumSub(a, b) == NumAdd(a, Neg(b))

NumMul(a, b) ==
    LET s == SignOf(a) * SignOf(b)
    IN IF a[1] = "nan" \/ b[1] = "nan" THEN NaN
       ELSE IF a[1] = "unk" \/ b[1] = "unk" THEN Unk
       ELSE IF a[1] = "inf" \/ b[1] = "inf"
            THEN (IF IsZero(a) \/ IsZero(b) THEN NaN
                  ELSE IF s = 0 THEN Unk ELSE Inf(s))
       ELSE IF IsZero(a) \/ IsZero(b) THEN (IF s = 0 THEN Unk ELSE Zero(s))
       ELSE IF IsNum(a) /\ IsNum(b) THEN Rat(a[2] * b[2], a[3] * b[3])
       ELSE IF a = One THEN b
       ELSE IF b = One THEN a
       ELSE IF a = Neg(One) THEN Neg(b)
       ELSE IF b = Neg(One) THEN Neg(a)
       ELSE Irr(<<"*", a, b>>, s)

NumDiv(a, b) ==
    LET s == SignOf(a) * SignOf(b)
    IN IF a[1] = "nan" \/ b[1] = "nan" THEN NaN
       ELSE IF a[1] = "unk" \/ b[1] = "unk" THEN Unk
       ELSE IF a[1] = "inf"
            THEN (IF b[1] = "inf" THEN NaN ELSE IF s = 0 THEN Unk ELSE Inf(s))
       ELSE IF b[1] = "inf" THEN (IF s = 0 THEN Unk ELSE Zero(s))
       ELSE IF IsZero(b)
            THEN (IF IsZero(a) THEN NaN ELSE IF s = 0 THEN Unk ELSE Inf(s))
       ELSE IF SignOf(b) = 0 THEN Unk
       ELSE IF IsZero(a) THEN Zero(s)
       ELSE IF IsNum(a) /\ IsNum(b) THEN Rat(a[2] * b[3], a[3] * b[2])
       ELSE IF b = One THEN a
       ELSE IF a = b THEN One
       ELSE Irr(<<"/", a, b>>, s)

\* acc * a^k for a rational a and k >= 0, stopping once the range is left.
RECURSIVE PowAcc(_, _, _)
PowAcc(acc, a, k) ==
    IF k = 0 \/ acc[1] # "num" THEN acc ELSE PowAcc(NumMul(acc, a), a, k - 1)

\* a^k for a non-zero rational a and an integer k.
IntPow(a, k) ==
    IF a = One THEN One
    ELSE IF a = Neg(One) THEN (IF k % 2 = 0 THEN One ELSE a)
    ELSE IF k >= 0 THEN PowAcc(One, a, k)
    ELSE NumDiv(One, PowAcc(One, a, -k))

\* The positive integer r with r^q = n, or 0 when n is no perfect q-th power.
IRoot(n, q) ==
    LET c == {r \in 1..n : r * r <= n /\ PowAcc(One, <<"num", r, 1>>, q) = <<"num", n, 1>>}
    IN IF n = 1 THEN 1 ELSE IF c = {} THEN 0 ELSE CHOOSE r \in c : TRUE

\* a^b for a positive rational a and a non-integer rational b.
RootPow(a, b) ==
    LET rn == IRoot(a[2], b[3])
        rd == IRoot(a[3], b[3])
    IN IF rn = 0 \/ rd = 0 THEN Irr(<<"^", a, b>>, 1)
       ELSE IntPow(<<"num", rn, rd>>, b[2])

\* Whether |v| > 1 ("gt"), |v| < 1 ("lt"), |v| = 1 ("eq") or not determined.
MagVsOne(v) ==
    CASE v[1] = "inf" -> "gt"
      [] v[1] = "num" -> IF Abs(v[2]) > Abs(v[3]) THEN "gt"
                         ELSE IF Abs(v[2]) < Abs(v[3]) \/ v[2] = 0 THEN "lt" ELSE "eq"
      [] OTHER -> "unknown"

\* Math.pow(a, b)
MathPow(a, b) ==
    IF b[1] = "nan" THEN NaN
    ELSE IF IsZero(b) THEN One
    ELSE IF a[1] = "nan" THEN NaN
    ELSE IF a[1] = "unk" \/ b[1] = "unk" THEN Unk
    ELSE IF b[1] = "inf"
         THEN (CASE MagVsOne(a) = "eq" -> NaN
                 [] MagVsOne(a) = "gt" -> IF b[2] > 0 THEN Inf(1) ELSE PZero
                 [] MagVsOne(a) = "lt" -> IF b[2] > 0 THEN PZero ELSE Inf(1)
                 [] OTHER -> Unk)
    ELSE IF SignOf(b) = 0 THEN Unk
    ELSE IF a[1] = "inf" \/ IsZero(a)
         THEN LET grows == (a[1] = "inf") = (SignOf(b) > 0)
                  neg == SignOf(a) < 0 /\ IsOddInt(b)
              IN IF grows THEN Inf(IF neg THEN -1 ELSE 1)
                 ELSE Zero(IF neg THEN -1 ELSE 1)
    ELSE IF b = One THEN a
    ELSE IF IsNum(a) /\ IsInt(b) THEN IntPow(a, b[2])
    ELSE IF IsNum(a) /\ IsNum(b)
         THEN (IF a[2] < 0 THEN NaN ELSE RootPow(a, b))
    ELSE IF IsInt(b)
         THEN (IF SignOf(a) = 0 /\ b[2] < 0 THEN Unk
               ELSE Irr(<<"^", a, b>>, IF b[2] % 2 = 0 THEN Abs(SignOf(a)) ELSE SignOf(a)))
    ELSE IF SignOf(a) = 0 THEN Unk
    ELSE IF SignOf(a) < 0 THEN NaN
    ELSE IF a = One THEN One
    ELSE Irr(<<"^", a, b>>, 1)

(***************************************************************************)
(* The members of Math that the identifiers of the inputs can name.        *)
(* `token in Math` also finds what Math inherits from Object.prototype, of *)
(* which "constructor" is the one name the tokenizer's [a-z]+ can spell.   *)
(* Math's other functions (abs, exp, ...) are spelled by no input here.    *)
(***************************************************************************)
SinName == <<"s", "i", "n">>
CosName == <<"c", "o", "s">>
TanName == <<"t", "a", "n">>
LogName == <<"l", "o", "g">>
LnName == <<"l", "n">>
SqrtName == <<"s", "q", "r", "t">>
ConstructorName == <<"c", "o", "n", "s", "t", "r", "u", "c", "t", "o", "r">>

MathMembers == {SinName, CosName, TanName, LogName, SqrtName, ConstructorName}

InMath(token) == token \in MathMembers

\* Math.PI / 180
PiOver180 == Irr(<<"pi180">>, 1)

\* v = q * (Math.PI / 180) for a rational q: <<TRUE, q>>, else <<FALSE, v>>.
Degrees(v) ==
    IF v = PiOver180 THEN <<TRUE, One>>
    ELSE IF v = Neg(PiOver180) THEN <<TRUE, Neg(One)>>
    ELSE IF v[1] = "irr" /\ Len(v[2]) = 3 /\ v[2][1] = "*" /\ v[2][3] = PiOver180
            /\ IsNum(v[2][2])
         THEN <<TRUE, v[2][2]>>
    ELSE <<FALSE, v>>

\* The number of whole quarter turns in |q| radians (floor(2|q|/pi)), from
\* 333/106 < pi < 355/113; -1 when the two bounds disagree.
QuarterTurnsRad(q) ==
    LET lo == (2 * Abs(q[2]) * 113) \div (355 * q[3])
        hi == (2 * Abs(q[2]) * 106) \div (333 * q[3])
    IN IF lo = hi THEN lo ELSE -1

\* Sign of sin (k = 0), cos (k = 1) or tan (k = 2) in quarter m of a
\* positive angle strictly inside the quarter.
QuarterSign(k, m) ==
    CASE k = 0 -> IF m % 4 \in {0, 1} THEN 1 ELSE -1
      [] k = 1 -> IF m % 4 \in {0, 3} THEN 1 ELSE -1
      [] OTHER -> IF m % 2 = 0 THEN 1 ELSE -1

\* Math.sin / Math.cos / Math.tan (k = 0 / 1 / 2) of a number v; name is
\* the function's name, kept in the term of a symbolic result.
Trig(k, name, v) ==
    LET deg == Degrees(v)
        odd == IF k = 1 THEN 1 ELSE SignOf(v)
    IN IF v[1] \in {"nan", "inf"} THEN NaN
       ELSE IF v[1] = "unk" THEN Unk
       ELSE IF IsZero(v) THEN (IF k = 1 THEN One ELSE v)
       ELSE IF IsNum(v)
            THEN LET m == QuarterTurnsRad(v)
                 IN Irr(<<name, v>>, IF m < 0 THEN 0 ELSE odd * QuarterSign(k, m))
       ELSE IF deg[1]
            THEN LET q == deg[2]
                     d == q[3]
                     r == Abs(q[2]) % (360 * d)
                     m == r \div (90 * d)
                     onAxis == r % (90 * d) = 0
                 IN IF onAxis /\ k = 0 /\ m \in {1, 3}
                         THEN (IF odd * QuarterSign(0, m) > 0 THEN One ELSE Neg(One))
                    ELSE IF onAxis /\ k = 1 /\ m \in {0, 2}
                         THEN (IF m = 0 THEN One ELSE Neg(One))
                    ELSE IF onAxis THEN Irr(<<name, v>>, 0)
                    ELSE Irr(<<name, v>>, odd * QuarterSign(k, m))
       ELSE Irr(<<name, v>>, 0)

\* Math.log: the natural logarithm.
MathLog(v) ==
    CASE v[1] = "nan" -> NaN
      [] v[1] = "unk" -> Unk
      [] v[1] = "inf" -> IF v[2] > 0 THEN v ELSE NaN
      [] v[1] = "num" -> IF v[2] = 0 THEN Inf(-1)
                         ELSE IF v[2] < 0 THEN NaN
                         ELSE IF v = One THEN PZero
                         ELSE Irr(<<LogName, v>>, IF v[2] > v[3] THEN 1 ELSE -1)
      [] OTHER -> IF v[3] < 0 THEN NaN
                  ELSE IF v[3] = 0 THEN Unk
                  ELSE Irr(<<LogName, v>>, 0)

MathSqrt(v) ==
    CASE v[1] = "nan" -> NaN
      [] v[1] = "unk" -> Unk
      [] v[1] = "inf" -> IF v[2] > 0 THEN v ELSE NaN
      [] v[1] = "num" -> IF v[2] = 0 THEN v
                         ELSE IF v[2] < 0 THEN NaN
                         ELSE LET rn == IRoot(v[2], 2)
                                  rd == IRoot(v[3], 2)
                              IN IF rn = 0 \/ rd = 0 THEN Irr(<<SqrtName, v>>, 1)
                                 ELSE <<"num", rn, rd>>
      [] OTHER -> IF v[3] < 0 THEN NaN
                  ELSE IF v[3] = 0 THEN Unk
                  ELSE Irr(<<SqrtName, v>>, 1)

\* Math.constructor is Object: Object(val).
ObjectOf(val) ==
    CASE val[1] = "undef" -> PlainObject
      [] val[1] \in {"obj", "box"} -> val
      [] OTHER -> <<"box", val, 0>>

\* Math[token](val) for token in Math.
MathApply(token, val) ==
    CASE token = SinName -> Trig(0, token, ToNumber(val))
      [] token = CosName -> Trig(1, token, ToNumber(val))
      [] token = TanName -> Trig(2, token, ToNumber(val))
      [] token = LogName -> MathLog(ToNumber(val))
      [] token = SqrtName -> MathSqrt(ToNumber(val))
      [] OTHER -> ObjectOf(val)

(***************************************************************************)
(* MathEngine.tokenize                                                     *)
(***************************************************************************)
\* The length of the longest prefix of s made of characters of class.
RECURSIVE RunLen(_, _)
RunLen(s, class) ==
    IF s = <<>> \/ Head(s) \notin class THEN 0 ELSE 1 + RunLen(Tail(s), class)

Drop(s, n) == SubSeq(s, n + 1, Len(s))

\* expr.match(/([0-9.]+|[a-z]+|\(|\)|\+|-|\*|\/|\^)/g) || []
RECURSIVE tokenize(_)
tokenize(expr) ==
    IF expr = <<>> THEN <<>>
    ELSE LET c == Head(expr)
             class == IF c \in NumChars THEN NumChars
                      ELSE IF c \in LowerChars THEN LowerChars
                      ELSE {}
             n == RunLen(expr, class)
         IN IF n > 0 THEN <<SubSeq(expr, 1, n)>> \o tokenize(Drop(expr, n))
            ELSE IF c \in SingleChars THEN <<(<<c>>)>> \o tokenize(Tail(expr))
            ELSE tokenize(Tail(expr))

(***************************************************************************)
(* parseFloat on a token: the longest prefix digits [. digits] with at     *)
(* least one digit; NaN when there is none.                                *)
(***************************************************************************)
\* The value of a digit string, or MaxMag + 1 once it exceeds MaxMag.
RECURSIVE DigitsValue(_, _)
DigitsValue(acc, ds) ==
    IF ds = <<>> \/ acc > MaxMag THEN acc
    ELSE DigitsValue(acc * 10 + DigitVal(Head(ds)), Tail(ds))

RECURSIVE Pow10(_)
Pow10(k) == IF k = 0 THEN 1 ELSE 10 * Pow10(k - 1)

parseFloat(token) ==
    IF token = <<>> \/ Head(token) \notin NumChars THEN NaN
    ELSE LET i == RunLen(token, DigitChars)
             hasDot == i < Len(token) /\ token[i + 1] = "."
             f == IF hasDot THEN RunLen(Drop(token, i + 1), DigitChars) ELSE 0
             used == IF hasDot THEN i + 1 + f ELSE i
             n == DigitsValue(0, SubSeq(token, 1, i) \o SubSeq(token, i + 2, i + 1 + f))
         IN IF \E j \in 1..Len(token) : token[j] = "#" THEN Unk
            ELSE IF i + f = 0 THEN NaN
            ELSE IF n = 0 THEN PZero
            ELSE IF n > MaxMag \/ f > 4 THEN Unk
            ELSE Rat(n, Pow10(f))

isNaN(v) == ToNumber(v)[1] = "nan"

(***************************************************************************)
(* MathEngine.toRPN: the shunting-yard conversion.  output holds           *)
(* <<"number", v>> and <<"string", token>>; stack holds tokens, its top    *)
(* last.                                                                   *)
(***************************************************************************)
\* precedence[token]; -1 where the table has no number for the token.
precedence(token) ==
    CASE token = <<"^">> -> 4
      [] token = <<"*">> -> 3
      [] token = <<"/">> -> 3
      [] token = <<"+">> -> 2
      [] token = <<"-">> -> 2
      [] token = <<"(">> -> 0
      [] OTHER -> -1

\* A table in which every operator is left-associative.
associativityAllLeft(token) == "Left"

associativity(token) == IF token = <<"^">> THEN "Right" ELSE "Left"

Top(stack) == stack[Len(stack)]
Pop(stack) == SubSeq(stack, 1, Len(stack) - 1)
Str(token) == <<"string", token>>

\* while (stack.length && top !== '(') output.push(stack.pop())
RECURSIVE PopToParen(_, _)
PopToParen(output, stack) ==
    IF stack # <<>> /\ Top(stack) # <<"(">>
    THEN PopToParen(Append(output, Str(Top(stack))), Pop(stack))
    ELSE <<output, stack>>

\* The ')' branch.
CloseParen(output, stack) ==
    LET p == PopToParen(output, stack)
        st == IF p[2] = <<>> THEN <<>> ELSE Pop(p[2])
    IN IF st # <<>> /\ InMath(Top(st))
       THEN <<Append(p[1], Str(Top(st))), Pop(st)>>
       ELSE <<p[1], st>>

\* The loop of the operator branch.
RECURSIVE PopOperators(_, _, _)
PopOperators(output, stack, token) ==
    IF stack # <<>> /\ precedence(Top(stack)) >= precedence(token)
       /\ ~(precedence(Top(stack)) = precedence(token) /\ associativity(token) = "Right")
    THEN PopOperators(Append(output, Str(Top(stack))), Pop(stack), token)
    ELSE <<output, stack>>

\* The body of tokens.forEach.
RPNStep(token, output, stack) ==
    IF ~isNaN(parseFloat(token)) THEN <<Append(output, <<"number", parseFloat(token)>>), stack>>
    ELSE IF InMath(token) THEN <<output, Append(stack, token)>>
    ELSE IF token = <<"(">> THEN <<output, Append(stack, token)>>
    ELSE IF token = <<")">> THEN CloseParen(output, stack)
    ELSE IF precedence(token) > 0
         THEN LET p == PopOperators(output, stack, token)
              IN <<p[1], Append(p[2], token)>>
    ELSE <<output, stack>>

RECURSIVE RPNLoop(_, _, _)
RPNLoop(tokens, output, stack) ==
    IF tokens = <<>> THEN <<output, stack>>
    ELSE LET p == RPNStep(Head(tokens), output, stack)
         IN RPNLoop(Tail(tokens), p[1], p[2])

\* while (stack.length) output.push(stack.pop())
RECURSIVE Flush(_, _)
Flush(output, stack) ==
    IF stack = <<>> THEN output ELSE Flush(Append(output, Str(Top(stack))), Pop(stack))

toRPN(tokens) ==
    LET p == RPNLoop(tokens, <<>>, <<>>)
    IN Flush(p[1], p[2])

(***************************************************************************)
(* MathEngine.evaluateRPN.  mode is STATE.angleMode, which the function    *)
(* reads.  The stack holds values, its top last; pop() of an empty array   *)
(* is undefined.                                                           *)
(***************************************************************************)
\* The degree conversion applied to every function of Math.
TrigNamesEveryFunction == MathMembers

TrigNames == {SinName, CosName, TanName}

PopVal(stack) == IF stack = <<>> THEN Undefined ELSE Top(stack)
PopRest(stack) == IF stack = <<>> THEN <<>> ELSE Pop(stack)

\* a + b: string concatenation when either primitive is a string.
JsAdd(a, b) ==
    IF ToPrimitive(a)[1] = "str" \/ ToPrimitive(b)[1] = "str" THEN ObjStr
    ELSE NumAdd(ToNumber(a), ToNumber(b))

\* The function branch: Math[token](val), val converted from degrees for
\* sin, cos and tan under DEG.
ApplyFunction(token, stack, mode) ==
    LET a == PopVal(stack)
        val == IF token \in TrigNames /\ mode = "DEG"
               THEN NumMul(ToNumber(a), PiOver180)
               ELSE a
    IN Append(PopRest(stack), MathApply(token, val))

\* The operator branch: the switch pushes nothing for any other token.
ApplyOperator(token, stack) ==
    LET b == PopVal(stack)
        a == PopVal(PopRest(stack))
        rest == PopRest(PopRest(stack))
    IN CASE token = <<"+">> -> Append(rest, JsAdd(a, b))
         [] token = <<"-">> -> Append(rest, NumSub(ToNumber(a), ToNumber(b)))
         [] token = <<"*">> -> Append(rest, NumMul(ToNumber(a), ToNumber(b)))
         [] token = <<"/">> -> Append(rest, NumDiv(ToNumber(a), ToNumber(b)))
         [] token = <<"^">> -> Append(rest, MathPow(ToNumber(a), ToNumber(b)))
         [] OTHER -> rest

\* The body of rpn.forEach.
EvalStep(elem, stack, mode) ==
    IF elem[1] = "number" THEN Append(stack, elem[2])
    ELSE IF InMath(elem[2]) THEN ApplyFunction(elem[2], stack, mode)
    ELSE ApplyOperator(elem[2], stack)

RECURSIVE EvalLoop(_, _, _)
EvalLoop(rpn, stack, mode) ==
    IF rpn = <<>> THEN stack
    ELSE EvalLoop(Tail(rpn), EvalStep(Head(rpn), stack, mode), mode)

\* The evaluation stack when the loop ends.
FinalStack(rpn, mode) == EvalLoop(rpn, <<>>, mode)

\* return stack[0]
StackResult(stack) == IF stack = <<>> THEN Undefined ELSE stack[1]

evaluateRPN(rpn, mode) == StackResult(FinalStack(rpn, mode))

(***************************************************************************)
(* MathEngine.solve                                                        *)
(***************************************************************************)
\* The characters U+00D7 and U+00F7, written as names.
TimesSign == "TIMES"
DivideSign == "DIVIDE"

\* expression.replace(/TIMES/g, '*').replace(/DIVIDE/g, '/')
Sanitize(expr) ==
    [i \in 1..Len(expr) |->
        IF expr[i] = TimesSign THEN "*"
        ELSE IF expr[i] = DivideSign THEN "/"
        ELSE expr[i]]

\* if (!isFinite(res) || isNaN(res)) throw; return res  -- the catch
\* returns "Error".  isFinite and isNaN convert res to a number first.
Finish(res) ==
    LET n == ToNumber(res)
    IN IF n[1] = "unk" THEN Unk
       ELSE IF n[1] \in {"num", "irr"} THEN res
       ELSE ErrorMarker

Pipeline(expr) == toRPN(tokenize(Sanitize(expr)))

solve(expr, mode) == Finish(evaluateRPN(Pipeline(expr), mode))

(***************************************************************************)
(* String(v) for the values solve returns and the numbers drawGraph        *)
(* substitutes.  A number with no finite decimal expansion in range is     *)
(* written "#" (after its sign, when that is known).                       *)
(***************************************************************************)
RECURSIVE IntDigits(_)
IntDigits(n) ==
    IF n < 10 THEN <<Digits[n + 1]>> ELSE Append(IntDigits(n \div 10), Digits[(n % 10) + 1])

RECURSIVE StripFactor(_, _)
StripFactor(d, f) == IF d % f = 0 THEN StripFactor(d \div f, f) ELSE d

RECURSIVE FracDigits(_, _)
FracDigits(r, d) ==
    IF r = 0 THEN <<>>
    ELSE <<Digits[((r * 10) \div d) + 1]>> \o FracDigits((r * 10) % d, d)

NumberToString(v) ==
    CASE v[1] = "num" ->
            LET n == Abs(v[2])
                d == Abs(v[3])
                sign == IF v[2] < 0 THEN <<"-">> ELSE <<>>
            IN IF d = 1 THEN sign \o IntDigits(n)
               ELSE IF StripFactor(StripFactor(d, 2), 5) = 1
                    THEN sign \o IntDigits(n \div d) \o <<".">> \o FracDigits(n % d, d)
               ELSE sign \o <<"#">>
      [] v[1] = "irr" -> IF v[3] < 0 THEN <<"-", "#">> ELSE <<"#">>
      [] OTHER -> <<"#">>

\* String(res) for a result of solve; '' is the initial STATE.result.
EmptyString == <<"str", "", 0>>

ToStr(v) ==
    CASE v = ErrorMarker -> ErrorStr
      [] v = EmptyString -> <<>>
      [] v[1] = "box" -> NumberToString(v[2])
      [] OTHER -> NumberToString(v)

(***************************************************************************)
(* The controller: handleInput(val), one action per branch.  A handler     *)
(* runs to completion, so the branches wait for pc = "idle".               *)
(***************************************************************************)
\* `${STATE.expression} = ${res}`
HistoryEntry(expr, res) == expr \o <<" ", "=", " ">> \o ToStr(res)

\* updateDisplay(): the input field shows STATE.expression.
displayInput == expression

graphVars == <<w, h, px, visited, plotted>>

Clear ==
    /\ pc = "idle"
    /\ expression' = <<>>
    /\ result' = EmptyString
    /\ displayResult' = <<>>
    /\ UNCHANGED <<history, angleMode, pc, graphVars>>

\* STATE.expression.slice(0, -1)
Del ==
    /\ pc = "idle"
    /\ expression' = (IF expression = <<>> THEN <<>> ELSE Pop(expression))
    /\ UNCHANGED <<result, history, angleMode, displayResult, pc, graphVars>>

Equals ==
    /\ pc = "idle"
    /\ Len(history) < MaxHist
    /\ LET res == solve(expression, angleMode)
       IN /\ result' = res
          /\ displayResult' = ToStr(res)
          /\ history' = Append(history, HistoryEntry(expression, res))
          /\ expression' = ToStr(res)
    /\ UNCHANGED <<angleMode, pc, graphVars>>

\* STATE.expression.includes('x')
IncludesX(expr) == \E i \in 1..Len(expr) : expr[i] = "x"

\* The 'graph' branch on an expression with no x: alert(...), no change.
GraphAlert ==
    /\ pc = "idle"
    /\ ~IncludesX(expression)
    /\ UNCHANGED vars

\* STATE.expression += val
AppendKey(val) ==
    /\ pc = "idle"
    /\ Len(expression) + Len(val) <= MaxExprLen
    /\ expression' = expression \o val
    /\ UNCHANGED <<result, history, angleMode, displayResult, pc, graphVars>>

(***************************************************************************)
(* drawGraph(expression): the sampling loop, one action per iteration.     *)
(***************************************************************************)
scale == 40

\* The 'graph' branch on an expression with x: drawGraph starts; the canvas
\* takes the size of its container.
GraphStart ==
    /\ pc = "idle"
    /\ IncludesX(expression)
    /\ pc' = "graph"
    /\ w' \in 0..MaxWidth
    /\ h' \in 0..MaxWidth
    /\ px' = 0
    /\ visited' = <<>>
    /\ plotted' = <<>>
    /\ UNCHANGED <<expression, result, history, angleMode, displayResult>>

\* x = (px - w / 2) / scale
SampleX(col, width) == Rat(2 * col - width, 2 * scale)

\* expression.replace(/x/g, `(${x})`)
RECURSIVE Substitute(_, _)
Substitute(expr, x) ==
    IF expr = <<>> THEN <<>>
    ELSE (IF Head(expr) = "x" THEN <<"(">> \o NumberToString(x) \o <<")">>
          ELSE <<Head(expr)>>) \o Substitute(Tail(expr), x)

\* y = engine.solve(evalStr) for column col
SampleY(expr, col, width, mode) == solve(Substitute(expr, SampleX(col, width)), mode)

\* py = h / 2 - (y * scale); a string y converts to NaN.
PixelY(y, height) == NumSub(Rat(height, 2), NumMul(ToNumber(y), <<"num", scale, 1>>))

\* A loop that draws every column, with no test of py.
PlottableUnchecked(py) == {TRUE}

\* !isNaN(py) && isFinite(py), as the set of its possible outcomes.
Plottable(py) ==
    IF py[1] = "unk" THEN BOOLEAN ELSE {py[1] \in {"num", "irr"}}

GraphStep ==
    /\ pc = "graph"
    /\ px < w
    /\ LET y == SampleY(expression, px, w, angleMode)
           py == PixelY(y, h)
       IN \E plot \in Plottable(py) :
             plotted' = (IF plot THEN Append(plotted, <<px, py>>) ELSE plotted)
    /\ visited' = Append(visited, px)
    /\ px' = px + 1
    /\ UNCHANGED <<expression, result, history, angleMode, displayResult, pc, w, h>>

\* The loop ends: ctx.stroke(), drawGraph returns (its locals are gone) and
\* handleInput calls updateDisplay().
GraphEnd ==
    /\ pc = "graph"
    /\ px >= w
    /\ pc' = "idle"
    /\ w' = 0
    /\ h' = 0
    /\ px' = 0
    /\ visited' = <<>>
    /\ plotted' = <<>>
    /\ UNCHANGED <<expression, result, history, angleMode, displayResult>>

(***************************************************************************)
(* A direct call of engine.solve(expression).                              *)
(***************************************************************************)
SolveCall ==
    /\ pc = "call"
    /\ result' = solve(expression, angleMode)
    /\ pc' = "done"
    /\ UNCHANGED <<expression, history, angleMode, displayResult, graphVars>>

(***************************************************************************)
(* Inputs.                                                                 *)
(***************************************************************************)
\* What a key press or a caller contributes to an expression.
Pieces ==
    { <<"0">>, <<"1">>, <<"9", "0">>, <<"1", "0", "0">>,
      <<"+">>, <<"/">>, <<"(">>, <<")">>,
      SinName \o <<"(">>, LogName \o <<"(">>, LnName \o <<"(">>,
      <<"a", "b", "c">>, ConstructorName \o <<"(">> }

\* Every string of at most n pieces.
StringsUpTo(n) ==
    { Concat(ps) : ps \in UNION { [1..k -> Pieces] : k \in 0..n } }

ArithLiterals == { <<"0">>, <<"2">>, <<"3">> }
ArithOperators == { "+", "-", "*", "/", "^" }

\* The well-formed expressions of exactly n tokens over literals, binary
\* operators and balanced parentheses.
RECURSIVE ArithExprs(_)
ArithExprs(n) ==
    IF n < 1 \/ n % 2 = 0 THEN {}
    ELSE IF n = 1 THEN ArithLiterals
    ELSE { <<"(">> \o e \o <<")">> : e \in ArithExprs(n - 2) }
         \cup UNION { { a \o <<op>> \o b :
                          a \in ArithExprs(i), b \in ArithExprs(n - 1 - i),
                          op \in ArithOperators } : i \in 1..(n - 2) }

ArithInputs == UNION { ArithExprs(n) : n \in 1..MaxArithLen }

SolveInputs == StringsUpTo(MaxLen) \cup ArithInputs

\* Expressions typed before the run starts, and the keys pressed in it.
TypedExpressions == { <<>>, <<"1", "-", "2">>, <<"x">> }
Keys == { <<"2">>, <<"*">> }

GraphExpressions ==
    { <<"x">>, <<"x", "*", "x">>, <<"1", "/", "x">>, <<"2", "-", "x">>,
      SqrtName \o <<"(", "x", ")">> }

(***************************************************************************)
(* Specifications.                                                         *)
(***************************************************************************)
InitState ==
    /\ result = EmptyString
    /\ history = <<>>
    /\ displayResult = <<>>
    /\ w = 0
    /\ h = 0
    /\ px = 0
    /\ visited = <<>>
    /\ plotted = <<>>

\* The calculator: STATE as constructed, with an expression already typed.
Init ==
    /\ InitState
    /\ expression \in TypedExpressions
    /\ angleMode = "DEG"
    /\ pc = "idle"

Next ==
    \/ Clear
    \/ Del
    \/ Equals
    \/ GraphAlert
    \/ GraphStart
    \/ GraphStep
    \/ GraphEnd
    \/ \E val \in Keys : AppendKey(val)

Spec == Init /\ [][Next]_vars

\* engine.solve called on each input, under each angle mode.
InitSolve ==
    /\ InitState
    /\ expression \in SolveInputs
    /\ angleMode \in {"DEG", "RAD"}
    /\ pc = "call"

NextSolve == SolveCall

SpecSolve == InitSolve /\ [][NextSolve]_vars

\* drawGraph on each graph expression and canvas size.
InitGraph ==
    /\ InitState
    /\ expression \in GraphExpressions
    /\ angleMode = "DEG"
    /\ pc = "idle"

NextGraph ==
    \/ GraphStart
    \/ GraphStep
    \/ GraphEnd

SpecGraph == InitGraph /\ [][NextGraph]_vars

\* for (let px = 0; px < w; px++): the step of the loop as seen on px alone.
LoopAdvance == pc = "graph" /\ px < w /\ px' = px + 1

\* The handler is synchronous: once started the loop keeps stepping, and
\* drawGraph returns when its condition fails.
FairGraph == SpecGraph /\ WF_px(LoopAdvance) /\ WF_vars(GraphEnd)

(***************************************************************************)
(* Properties.                                                             *)
(***************************************************************************)
IsFiniteNumber(v) == v[1] \in {"num", "irr"}
Undetermined(v) == ToNumber(v)[1] = "unk"

\* Standard evaluation of a well-formed arithmetic token sequence by
\* recursive descent: sum > product > power > atom, + - * / grouping to the
\* left and ^ to the right.  Each operator returns <<value, tokens left>>.
RECURSIVE RefSum(_), RefSumRest(_, _), RefProd(_), RefProdRest(_, _), RefPow(_), RefAtom(_)
RefAtom(ts) ==
    IF Head(ts) = <<"(">>
    THEN LET r == RefSum(Tail(ts)) IN <<r[1], Tail(r[2])>>
    ELSE <<parseFloat(Head(ts)), Tail(ts)>>

RefPow(ts) ==
    LET a == RefAtom(ts)
    IN IF a[2] # <<>> /\ Head(a[2]) = <<"^">>
       THEN LET b == RefPow(Tail(a[2])) IN <<MathPow(a[1], b[1]), b[2]>>
       ELSE a

RefProdRest(acc, ts) ==
    IF ts # <<>> /\ Head(ts) \in {<<"*">>, <<"/">>}
    THEN LET b == RefPow(Tail(ts))
         IN RefProdRest(IF Head(ts) = <<"*">> THEN NumMul(acc, b[1]) ELSE NumDiv(acc, b[1]),
                        b[2])
    ELSE <<acc, ts>>

RefProd(ts) == LET a == RefPow(ts) IN RefProdRest(a[1], a[2])

RefSumRest(acc, ts) ==
    IF ts # <<>> /\ Head(ts) \in {<<"+">>, <<"-">>}
    THEN LET b == RefProd(Tail(ts))
         IN RefSumRest(IF Head(ts) = <<"+">> THEN NumAdd(acc, b[1]) ELSE NumSub(acc, b[1]),
                       b[2])
    ELSE <<acc, ts>>

RefSum(ts) == LET a == RefProd(ts) IN RefSumRest(a[1], a[2])

StandardValue(expr) == RefSum(tokenize(expr))[1]

\* C1: for every well-formed expression of non-negative literals, + - * / ^
\* and balanced parentheses, solve returns the value of standard evaluation
\* order (the error marker where that value is not finite).
C1_StandardOrder ==
    (pc = "done" /\ expression \in ArithInputs)
        => result = Finish(StandardValue(expression))

\* solve("2^3^2") returned 512.
C1_Witness ==
    /\ pc = "done"
    /\ expression = <<"2", "^", "3", "^", "2">>
    /\ result = <<"num", 512, 1>>

\* C2: pressing '=' on an empty expression neither displays nor records the
\* error marker.
C2_EmptyIsNotError ==
    \A i \in 1..Len(history) : history[i] # HistoryEntry(<<>>, ErrorMarker)

\* C3: for every non-empty string solve returns a finite number or the
\* error marker.
C3_NumberOrError ==
    (pc = "done" /\ expression # <<>>)
        => (result = ErrorMarker \/ IsFiniteNumber(result) \/ Undetermined(result))

Log100 == LogName \o <<"(", "1", "0", "0", ")">>
Ln1 == LnName \o <<"(", "1", ")">>

\* C4: log is the base-10 logarithm and ln the natural logarithm:
\* solve("log(100)") is 2 and solve("ln(1)") is 0.
C4_LogAndLn ==
    pc = "done" =>
        /\ expression = Log100 => result = <<"num", 2, 1>>
        /\ expression = Ln1 => result = PZero

\* The function names the specification recognises.
RecognizedFunctions == {SinName, CosName, TanName, LogName, LnName, SqrtName}

HasUnknownIdentifier(expr) ==
    LET ts == tokenize(Sanitize(expr))
    IN \E i \in 1..Len(ts) :
          Head(ts[i]) \in LowerChars /\ ts[i] \notin RecognizedFunctions

\* C5: an expression holding an identifier that is no recognised function
\* name yields the error marker.
C5_UnknownIdentifierIsError ==
    (pc = "done" /\ HasUnknownIdentifier(expression)) => result = ErrorMarker

BinaryOp(op, a, b) ==
    CASE op = "+" -> NumAdd(a, b)
      [] op = "-" -> NumSub(a, b)
      [] op = "*" -> NumMul(a, b)
      [] op = "/" -> NumDiv(a, b)
      [] OTHER -> MathPow(a, b)

\* The '=' step taken on String(r) op n, r the number the previous '=' left
\* in STATE.result and written out exactly.
ChainedStep(op, n) ==
    /\ pc = "idle"
    /\ result[1] = "num"
    /\ "#" \notin {ToStr(result)[i] : i \in 1..Len(ToStr(result))}
    /\ expression = ToStr(result) \o <<op>> \o n
    /\ Len(history') = Len(history) + 1

\* C6: evaluating String(r) op n after '=' gives r op n, for r positive,
\* zero or negative.
C6_Chaining ==
    [][\A op \in ArithOperators, n \in {k \in Keys : Head(k) \in DigitChars} :
          ChainedStep(op, n) => result' = Finish(BinaryOp(op, result, parseFloat(n)))]_vars

\* The value of a graph expression with x bound to the number v.
ValueAt(expr, v) ==
    CASE expr = <<"x">> -> v
      [] expr = <<"x", "*", "x">> -> NumMul(v, v)
      [] expr = <<"1", "/", "x">> -> NumDiv(One, v)
      [] expr = <<"2", "-", "x">> -> NumSub(<<"num", 2, 1>>, v)
      [] OTHER -> MathSqrt(v)

\* C7: every column sampled so far got the value of the expression at
\* x = (px - w/2)/scale, and a point when that value is finite.
C7_ColumnValue ==
    pc = "graph" =>
        \A col \in 0..(px - 1) :
            LET y == ValueAt(expression, SampleX(col, w))
            IN /\ SampleY(expression, col, w, angleMode) = Finish(y)
               /\ IsFiniteNumber(y) =>
                     \E j \in 1..Len(plotted) : plotted[j] = <<col, PixelY(y, h)>>

\* The three functions the claim names.
ClaimedTrig == {SinName, CosName, TanName}

HasTrig(expr) ==
    LET ts == tokenize(Sanitize(expr))
    IN \E i \in 1..Len(ts) : ts[i] \in ClaimedTrig

\* The expression is f(n) for one of the three functions and a literal n.
IsTrigCall(rpn) ==
    Len(rpn) = 2 /\ rpn[1][1] = "number" /\ rpn[2][1] = "string" /\ rpn[2][2] \in ClaimedTrig

OtherMode(mode) == IF mode = "DEG" THEN "RAD" ELSE "DEG"

\* C8: under DEG the operand of sin, cos, tan is multiplied by pi/180 and
\* under RAD it is passed unchanged; an expression with none of the three
\* has under each mode the result it has under the other.
C8_AngleModeTrigOnly ==
    pc = "done" =>
        LET rpn == Pipeline(expression)
        IN /\ ~HasTrig(expression) => result = solve(expression, OtherMode(angleMode))
           /\ IsTrigCall(rpn) =>
                 result = Finish(MathApply(rpn[2][2],
                                 IF angleMode = "DEG" THEN NumMul(rpn[1][2], PiOver180)
                                 ELSE rpn[1][2]))

Sin90 == SinName \o <<"(", "9", "0", ")">>

\* solve("sin(90)") returned 1 under DEG, and differs under RAD.
C8_Witness ==
    /\ pc = "done"
    /\ expression = Sin90
    /\ angleMode = "DEG"
    /\ result = One
    /\ solve(expression, "RAD") # One
    /\ solve(Log100, "DEG") = solve(Log100, "RAD")

\* visited is 0, 1, ..., px - 1; the points are those of the visited columns
\* whose pixel value is finite, in column order; outside the loop nothing is
\* left to visit.
SamplingInvariant ==
    /\ Len(visited) = px
    /\ \A i \in 1..Len(visited) : visited[i] = i - 1
    /\ px <= w
    /\ pc = "idle" => px = w
    /\ \A j \in 1..Len(plotted) :
          /\ plotted[j][1] \in 0..(px - 1)
          /\ j > 1 => plotted[j - 1][1] < plotted[j][1]
          /\ plotted[j][2] = PixelY(SampleY(expression, plotted[j][1], w, angleMode), h)
          /\ SampleY(expression, plotted[j][1], w, angleMode) # ErrorMarker
          /\ plotted[j][2][1] \notin {"nan", "inf"}
    /\ \A col \in 0..(px - 1) :
          IsFiniteNumber(PixelY(SampleY(expression, col, w, angleMode), h))
              => \E j \in 1..Len(plotted) : plotted[j][1] = col

\* C9: the loop visits the columns 0..w-1 once each in increasing order,
\* draws no point for a failing or non-finite column, is not stopped by one,
\* and ends after column w-1.
C9_SamplingLoop ==
    /\ []SamplingInvariant
    /\ [][pc = "graph" /\ pc' = "graph" => px' = px + 1 /\ visited' = Append(visited, px)]_vars
    /\ [][pc = "graph" /\ pc' = "idle" => px = w /\ Len(visited) = w]_vars
    /\ (pc = "graph") ~> (pc = "idle")

\* 1/x on four columns: the first three fail, the fourth is drawn, and the
\* loop has reached its end.
C9_Witness ==
    /\ pc = "graph"
    /\ expression = <<"1", "/", "x">>
    /\ w = 4
    /\ px = w
    /\ visited = <<0, 1, 2, 3>>
    /\ Len(plotted) = 1
    /\ plotted[1][1] = 3

\* C10: a number returned by solve is the only value left on the evaluation
\* stack.
C10_SoleStackValue ==
    (pc = "done" /\ (IsFiniteNumber(result) \/ result[1] = "box"))
        => Len(FinalStack(Pipeline(expression), angleMode)) = 1

=============================================================================
